---- MODULE Spec2Model ----
(***************************************************************************)
(* Model of scripts/validate_system_requirements.py: the four hardware     *)
(* probes of SystemValidator, the aggregation done by validate, the JSON   *)
(* writer save_report and the driver main.                                 *)
(*                                                                         *)
(* Numbers.  A Python float that the program rounds to two decimals is     *)
(* kept as its number of hundredths (32.0 is 3200); unrounded quantities   *)
(* are kept in the raw unit the operating system reports (kB, MiB, file    *)
(* system blocks).  Every division of the source is by a power of two of a *)
(* value below 2^53, hence exact in binary floating point, and Python's    *)
(* round(x, 2) is the correctly rounded decimal of that exact value, ties  *)
(* to even; Round2 computes it on integers.                                *)
(***************************************************************************)
EXTENDS Integers, Sequences, FiniteSets, TLC

VARIABLES
    platform,          \* platform.system() of this run
    quiet,             \* args.quiet
    pc,                \* position of main
    cpu,               \* validate: cpu = self.get_cpu_info()
    memory,            \* validate: memory = self.get_memory_info()
    gpu,               \* validate: gpu = self.get_gpu_info()
    storage,           \* validate: storage = self.get_storage_info()
    report,            \* main: report = validator.validate()
    stdout,            \* what was printed to standard output, in order
    stderr,            \* what was printed to standard error, in order
    file,              \* the output path on disk
    handle,            \* save_report: the file object f of the with statement
    exc,               \* the exception in flight, None when there is none
    exit_status,       \* the process exit status, None while running
    ret,               \* the last call of a probe on its own, and its value
    machine            \* what the machine answered to each probe of the run

vars == <<platform, quiet, pc, cpu, memory, gpu, storage, report, stdout,
          stderr, file, handle, exc, exit_status, ret, machine>>

(***************************************************************************)
(* Thresholds: class attributes of SystemValidator.                        *)
(***************************************************************************)
MIN_CPU_CORES == 8
RECOMMENDED_CPU_CORES == 12
MIN_RAM_GB == 32
RECOMMENDED_RAM_GB == 40
MIN_STORAGE_GB == 50
MIN_VRAM_GB == 16
RECOMMENDED_VRAM_GB == 24
OPTIMAL_VRAM_GB == 32

(***************************************************************************)
(* Python values.                                                          *)
(***************************************************************************)
None == [none |-> TRUE]

\* a float holding h hundredths, and an int n
Float(h) == [ty |-> "float", h |-> h]
PyInt(n) == [ty |-> "int", h |-> n * 100]

\* an f-string: the literal text with {} for each formatted value
FStr(text, args) == [text |-> text, args |-> args]
Str(text) == FStr(text, <<>>)

\* units of the divisions: 1024 ** 2 kB per GB, 1024 MiB per GB
KB_PER_GB == 1048576
MB_PER_GB == 1024
BYTES_PER_GB_LOG2 == 30

RECURSIVE Pow2(_)
Pow2(n) == IF n = 0 THEN 1 ELSE 2 * Pow2(n - 1)

\* nearest integer to num / den, ties to the even one (num >= 0, den > 0)
RoundHalfEven(num, den) ==
    LET q == num \div den
        r == num % den
    IN  IF 2 * r < den THEN q
        ELSE IF 2 * r > den THEN q + 1
        ELSE IF q % 2 = 0 THEN q ELSE q + 1

\* round(raw / unit, 2), in hundredths
Round2(raw, unit) ==
    (raw \div unit) * 100 + RoundHalfEven((raw % unit) * 100, unit)

(***************************************************************************)
(* get_cpu_info.  hw is what the machine answers: ok is FALSE when any     *)
(* call of the try block raises; physical and logical are the core counts  *)
(* the utilities report (nproc --all and NumberOfLogicalProcessors and     *)
(* hw.logicalcpu give the logical count, NumberOfCores and hw.physicalcpu  *)
(* the physical one).                                                      *)
(***************************************************************************)
CPUInfo(model, cores, threads, architecture, meets_minimum, meets_recommended) ==
    [model |-> model, cores |-> cores, threads |-> threads,
     architecture |-> architecture, meets_minimum |-> meets_minimum,
     meets_recommended |-> meets_recommended]

CpuCores(plat, hw) ==
    IF plat = "Linux" THEN hw.logical      \* cores = int(nproc --all)
    ELSE hw.physical                       \* NumberOfCores, hw.physicalcpu

CpuThreads(plat, hw) ==
    IF plat = "Linux" THEN CpuCores(plat, hw)   \* threads = cores
    ELSE hw.logical

\* faulty variant: a strict comparison
CpuMeetsStrict(cores, threshold) == cores > threshold

CpuMeets(cores, threshold) == cores >= threshold

get_cpu_info(plat, hw) ==
    IF hw.ok
    THEN LET cores == CpuCores(plat, hw)
         IN  CPUInfo(Str(hw.model), cores, CpuThreads(plat, hw), Str(hw.arch),
                     CpuMeets(cores, MIN_CPU_CORES),
                     CpuMeets(cores, RECOMMENDED_CPU_CORES))
    ELSE CPUInfo(Str("Unknown"), 0, 0, Str(hw.arch), FALSE, FALSE)

\* the except branch prints to sys.stderr
CpuDiagnostic(hw) ==
    IF hw.ok THEN <<>> ELSE <<"Warning: Could not get CPU info">>

(***************************************************************************)
(* get_memory_info.  hw.total and hw.available are in kB: MemTotal and     *)
(* MemAvailable on Linux, TotalVisibleMemorySize and FreePhysicalMemory on *)
(* Windows (multiplied by 1024 and divided by 1024 ** 3), hw.memsize on    *)
(* macOS taken as a whole number of kB.                                    *)
(***************************************************************************)
MemoryInfo(total_gb, available_gb, meets_minimum, meets_recommended) ==
    [total_gb |-> total_gb, available_gb |-> available_gb,
     meets_minimum |-> meets_minimum, meets_recommended |-> meets_recommended]

\* available_gb before rounding, to the kB; macOS: total_gb * 0.7
MemAvailableKb(plat, hw) ==
    IF plat \in {"Linux", "Windows"} THEN hw.available
    ELSE (hw.total * 7) \div 10

\* total_gb >= threshold, on the unrounded quotient total_kb / 1024 ** 2
MemMeets(total_kb, threshold_gb) == total_kb >= threshold_gb * KB_PER_GB

get_memory_info(plat, hw) ==
    IF hw.ok
    THEN MemoryInfo(Float(Round2(hw.total, KB_PER_GB)),
                    Float(Round2(MemAvailableKb(plat, hw), KB_PER_GB)),
                    MemMeets(hw.total, MIN_RAM_GB),
                    MemMeets(hw.total, RECOMMENDED_RAM_GB))
    ELSE MemoryInfo(PyInt(0), PyInt(0), FALSE, FALSE)

MemDiagnostic(hw) ==
    IF hw.ok THEN <<>> ELSE <<"Warning: Could not get memory info">>

(***************************************************************************)
(* get_gpu_info.  hw.smi is the outcome of the first nvidia-smi call:      *)
(* "ok", "CalledProcessError" (non-zero exit) or "Exception" (anything     *)
(* else: the binary is missing, the output does not parse).  hw.vram_mb is *)
(* memory.total in MiB; hw.cap_ok is FALSE when the compute_cap query      *)
(* raises, which the inner try turns into "Unknown".                       *)
(***************************************************************************)
GPUInfo(name, vram_gb, cuda_version, driver_version, compute_capability, is_available, recommended_quantization) ==
    [name |-> name, vram_gb |-> vram_gb, cuda_version |-> cuda_version,
     driver_version |-> driver_version,
     compute_capability |-> compute_capability,
     is_available |-> is_available,
     recommended_quantization |-> recommended_quantization]

\* faulty variant: the minimum tier starts above 16 GB instead of at 16 GB
RecommendedQuantStrict(v) ==
    IF v >= OPTIMAL_VRAM_GB * 100 THEN "Q6_K or Q8_0 (full GPU offload)"
    ELSE IF v >= RECOMMENDED_VRAM_GB * 100 THEN "Q5_K_M (full GPU offload)"
    ELSE IF v > MIN_VRAM_GB * 100 THEN "Q4_K_M (partial GPU offload)"
    ELSE "Q4_K_M (CPU-heavy, limited GPU)"

\* the if / elif chain on the rounded vram_gb (v in hundredths)
RecommendedQuant(v) ==
    IF v >= OPTIMAL_VRAM_GB * 100 THEN "Q6_K or Q8_0 (full GPU offload)"
    ELSE IF v >= RECOMMENDED_VRAM_GB * 100 THEN "Q5_K_M (full GPU offload)"
    ELSE IF v >= MIN_VRAM_GB * 100 THEN "Q4_K_M (partial GPU offload)"
    ELSE "Q4_K_M (CPU-heavy, limited GPU)"

\* faulty variant: a failed probe returns a zeroed GPU fact instead of None
get_gpu_info_zeroed(hw) ==
    IF hw.smi = "ok"
    THEN GPUInfo(Str(hw.name), Float(Round2(hw.vram_mb, MB_PER_GB)),
                 Str(hw.cuda), Str(hw.driver),
                 IF hw.cap_ok THEN Str(hw.cap) ELSE Str("Unknown"), TRUE,
                 Str(RecommendedQuant(Round2(hw.vram_mb, MB_PER_GB))))
    ELSE GPUInfo(Str("Unknown"), PyInt(0), Str("Unknown"), Str("Unknown"),
                 Str("Unknown"), FALSE, Str(RecommendedQuant(0)))

get_gpu_info(hw) ==
    IF hw.smi = "ok"
    THEN LET vram_gb == Round2(hw.vram_mb, MB_PER_GB)
         IN  GPUInfo(Str(hw.name), Float(vram_gb), Str(hw.cuda),
                     Str(hw.driver),
                     IF hw.cap_ok THEN Str(hw.cap) ELSE Str("Unknown"),
                     TRUE, Str(RecommendedQuant(vram_gb)))
    ELSE None

\* only the generic except branch prints
GpuDiagnostic(hw) ==
    IF hw.smi = "Exception" THEN <<"Warning: Could not get GPU info">>
    ELSE <<>>

(***************************************************************************)
(* get_storage_info.  hw.blocks and hw.bavail are f_blocks and f_bavail,   *)
(* hw.frsize_log2 the exponent of f_frsize (a power of two); on Windows    *)
(* the byte counts of GetDiskFreeSpaceExW are taken as whole clusters of   *)
(* that size.  hw.df_ok is FALSE when the df call of the Linux branch      *)
(* raises or prints a single line.                                         *)
(***************************************************************************)
StorageInfo(total_gb, available_gb, meets_minimum, filesystem) ==
    [total_gb |-> total_gb, available_gb |-> available_gb,
     meets_minimum |-> meets_minimum, filesystem |-> filesystem]

\* number of blocks in one GB
BlocksPerGb(hw) == Pow2(BYTES_PER_GB_LOG2 - hw.frsize_log2)

Filesystem(plat, hw) ==
    IF plat = "Windows" THEN "NTFS"
    ELSE IF plat = "Linux" THEN (IF hw.df_ok THEN hw.fstype ELSE "Unknown")
    ELSE "APFS/HFS+"

\* available_gb >= MIN_STORAGE_GB, on the unrounded quotient
StorageMeets(bavail, blocks_per_gb) == bavail >= MIN_STORAGE_GB * blocks_per_gb

get_storage_info(plat, hw) ==
    IF hw.ok
    THEN StorageInfo(Float(Round2(hw.blocks, BlocksPerGb(hw))),
                     Float(Round2(hw.bavail, BlocksPerGb(hw))),
                     StorageMeets(hw.bavail, BlocksPerGb(hw)),
                     Str(Filesystem(plat, hw)))
    ELSE StorageInfo(PyInt(0), PyInt(0), FALSE, Str("Unknown"))

StorageDiagnostic(hw) ==
    IF hw.ok THEN <<>> ELSE <<"Warning: Could not get storage info">>

(***************************************************************************)
(* validate: the four evaluation blocks, each appending to warnings and to *)
(* recommendations, then the overall status.                               *)
(***************************************************************************)
\* faulty variant: nothing is said between the minimum and the recommended
EvaluateCPUWithoutElif(c) ==
    IF ~c.meets_minimum
    THEN [warnings |-> <<FStr("CPU has only {} cores (minimum: {})",
                              <<PyInt(c.cores), PyInt(MIN_CPU_CORES)>>)>>,
          recommendations |->
              <<Str("Upgrade to a CPU with at least 8 cores for acceptable performance")>>]
    ELSE [warnings |-> <<>>, recommendations |-> <<>>]

EvaluateCPU(c) ==
    IF ~c.meets_minimum
    THEN [warnings |-> <<FStr("CPU has only {} cores (minimum: {})",
                              <<PyInt(c.cores), PyInt(MIN_CPU_CORES)>>)>>,
          recommendations |->
              <<Str("Upgrade to a CPU with at least 8 cores for acceptable performance")>>]
    ELSE IF ~c.meets_recommended
    THEN [warnings |-> <<>>,
          recommendations |->
              <<FStr("CPU has {} cores. 12+ cores recommended for optimal performance",
                     <<PyInt(c.cores)>>)>>]
    ELSE [warnings |-> <<>>, recommendations |-> <<>>]

EvaluateMemory(m) ==
    IF ~m.meets_minimum
    THEN [warnings |-> <<FStr("RAM is {}GB (minimum: {}GB)",
                              <<m.total_gb, PyInt(MIN_RAM_GB)>>)>>,
          recommendations |->
              <<Str("CRITICAL: Upgrade RAM to at least 32GB to run 70B model")>>]
    ELSE IF ~m.meets_recommended
    THEN [warnings |-> <<>>,
          recommendations |->
              <<FStr("RAM is {}GB. 40GB+ recommended for Q5_K_M or higher",
                     <<m.total_gb>>)>>]
    ELSE [warnings |-> <<>>, recommendations |-> <<>>]

\* faulty variant: a GPU of exactly the minimum VRAM is warned about too
EvaluateGPUAtMostMinimum(g) ==
    IF g = None
    THEN [warnings |->
              <<Str("No NVIDIA GPU detected - will use CPU-only inference (very slow)")>>,
          recommendations |->
              <<Str("Add NVIDIA GPU with 24GB+ VRAM for 10-20x speedup")>>]
    ELSE IF g.vram_gb.h <= MIN_VRAM_GB * 100
    THEN [warnings |-> <<FStr("GPU VRAM is {}GB (recommended: {}GB+)",
                              <<g.vram_gb, PyInt(RECOMMENDED_VRAM_GB)>>)>>,
          recommendations |->
              <<Str("GPU will be underutilized. Consider hybrid CPU/GPU inference")>>]
    ELSE IF g.vram_gb.h >= OPTIMAL_VRAM_GB * 100
    THEN [warnings |-> <<>>,
          recommendations |->
              <<FStr("Excellent! {}GB VRAM enables Q6_K or Q8_0 quantization",
                     <<g.vram_gb>>)>>]
    ELSE [warnings |-> <<>>, recommendations |-> <<>>]

\* faulty variant: no warning for an absent GPU, only the recommendation
EvaluateGPUSilent(g) ==
    IF g = None
    THEN [warnings |-> <<>>,
          recommendations |->
              <<Str("Add NVIDIA GPU with 24GB+ VRAM for 10-20x speedup")>>]
    ELSE [warnings |-> <<>>, recommendations |-> <<>>]

EvaluateGPU(g) ==
    IF g = None
    THEN [warnings |->
              <<Str("No NVIDIA GPU detected - will use CPU-only inference (very slow)")>>,
          recommendations |->
              <<Str("Add NVIDIA GPU with 24GB+ VRAM for 10-20x speedup")>>]
    ELSE IF g.vram_gb.h < MIN_VRAM_GB * 100
    THEN [warnings |-> <<FStr("GPU VRAM is {}GB (recommended: {}GB+)",
                              <<g.vram_gb, PyInt(RECOMMENDED_VRAM_GB)>>)>>,
          recommendations |->
              <<Str("GPU will be underutilized. Consider hybrid CPU/GPU inference")>>]
    ELSE IF g.vram_gb.h >= OPTIMAL_VRAM_GB * 100
    THEN [warnings |-> <<>>,
          recommendations |->
              <<FStr("Excellent! {}GB VRAM enables Q6_K or Q8_0 quantization",
                     <<g.vram_gb>>)>>]
    ELSE [warnings |-> <<>>, recommendations |-> <<>>]

EvaluateStorage(s) ==
    IF ~s.meets_minimum
    THEN [warnings |-> <<FStr("Only {}GB available (minimum: {}GB)",
                              <<s.available_gb, PyInt(MIN_STORAGE_GB)>>)>>,
          recommendations |-> <<Str("Free up disk space or use a larger drive")>>]
    ELSE [warnings |-> <<>>, recommendations |-> <<>>]

\* faulty variant: the CPU left out of the critical failures
critical_failures_without_cpu(c, m, s) ==
    <<~m.meets_minimum, ~s.meets_minimum>>

\* critical_failures = [not memory..., not storage..., not cpu...]
critical_failures(c, m, s) ==
    <<~m.meets_minimum, ~s.meets_minimum, ~c.meets_minimum>>

\* any(xs)
any(xs) == \E i \in 1..Len(xs) : xs[i]

\* faulty variant: a recommendation for the CPU or the memory counts as a warning
OverallStatusOnRecommendations(c, m, s, warnings) ==
    IF any(critical_failures(c, m, s)) THEN "FAILED"
    ELSE IF warnings # <<>> \/ ~c.meets_recommended \/ ~m.meets_recommended
    THEN "PASSED_WITH_WARNINGS"
    ELSE "PASSED"

OverallStatus(c, m, s, warnings) ==
    IF any(critical_failures(c, m, s)) THEN "FAILED"
    ELSE IF warnings # <<>> THEN "PASSED_WITH_WARNINGS"
    ELSE "PASSED"

SystemReport(c, m, g, s, overall_status, recommendations, warnings, timestamp) ==
    [cpu |-> c, memory |-> m, gpu |-> g, storage |-> s,
     overall_status |-> overall_status, recommendations |-> recommendations,
     warnings |-> warnings, timestamp |-> timestamp]

\* faulty variant: the list of warnings is kept from one call to the next
LeftoverWarnings == IF report = None THEN <<>> ELSE report.warnings

\* warnings = [] and recommendations = []: new lists at every call
NewWarnings == <<>>
NewRecommendations == <<>>

\* faulty variant: the storage is evaluated before the GPU
EvaluateStorageBeforeGpu(c, m, g, s, now) ==
    LET warnings == NewWarnings
                    \o EvaluateCPU(c).warnings \o EvaluateMemory(m).warnings
                    \o EvaluateStorage(s).warnings \o EvaluateGPU(g).warnings
        recommendations ==
            NewRecommendations
            \o EvaluateCPU(c).recommendations \o EvaluateMemory(m).recommendations
            \o EvaluateStorage(s).recommendations \o EvaluateGPU(g).recommendations
    IN  SystemReport(c, m, g, s, Str(OverallStatus(c, m, s, warnings)),
                     recommendations, warnings, Str(now))

\* the part of validate after the four probes have returned
Evaluate(c, m, g, s, now) ==
    LET warnings == NewWarnings
                    \o EvaluateCPU(c).warnings \o EvaluateMemory(m).warnings
                    \o EvaluateGPU(g).warnings \o EvaluateStorage(s).warnings
        recommendations ==
            NewRecommendations
            \o EvaluateCPU(c).recommendations \o EvaluateMemory(m).recommendations
            \o EvaluateGPU(g).recommendations \o EvaluateStorage(s).recommendations
    IN  SystemReport(c, m, g, s, Str(OverallStatus(c, m, s, warnings)),
                     recommendations, warnings, Str(now))

(***************************************************************************)
(* save_report: asdict, then json.dump.  A JSON text is the sequence of    *)
(* its tokens (the indentation is white space and is left out).  A number  *)
(* token holds the digits Python writes: the integer part and the digits   *)
(* after the point, none for an int, one or two for a float of at most two *)
(* decimals (repr(32.0) is "32.0", repr(31.99) is "31.99").                *)
(***************************************************************************)
PyBool(b) == [ty |-> "bool", b |-> b]
PyList(items) == [ty |-> "list", items |-> items]
PyDict(items) == [ty |-> "dict", items |-> items]
Item(k, v) == [k |-> k, v |-> v]

IsNone(v) == "none" \in DOMAIN v
IsStr(v) == "text" \in DOMAIN v

\* dataclasses.asdict on each dataclass: the fields in declaration order
AsDictCPU(c) ==
    PyDict(<<Item("model", c.model), Item("cores", PyInt(c.cores)),
             Item("threads", PyInt(c.threads)),
             Item("architecture", c.architecture),
             Item("meets_minimum", PyBool(c.meets_minimum)),
             Item("meets_recommended", PyBool(c.meets_recommended))>>)

AsDictMemory(m) ==
    PyDict(<<Item("total_gb", m.total_gb), Item("available_gb", m.available_gb),
             Item("meets_minimum", PyBool(m.meets_minimum)),
             Item("meets_recommended", PyBool(m.meets_recommended))>>)

AsDictGPU(g) ==
    IF g = None THEN None
    ELSE PyDict(<<Item("name", g.name), Item("vram_gb", g.vram_gb),
                  Item("cuda_version", g.cuda_version),
                  Item("driver_version", g.driver_version),
                  Item("compute_capability", g.compute_capability),
                  Item("is_available", PyBool(g.is_available)),
                  Item("recommended_quantization", g.recommended_quantization)>>)

AsDictStorage(s) ==
    PyDict(<<Item("total_gb", s.total_gb), Item("available_gb", s.available_gb),
             Item("meets_minimum", PyBool(s.meets_minimum)),
             Item("filesystem", s.filesystem)>>)

\* faulty variant: an absent GPU is left out of the dict
asdict_without_none(r) ==
    PyDict(<<Item("cpu", AsDictCPU(r.cpu)), Item("memory", AsDictMemory(r.memory))>>
           \o (IF r.gpu = None THEN <<>> ELSE <<Item("gpu", AsDictGPU(r.gpu))>>)
           \o <<Item("storage", AsDictStorage(r.storage)),
                Item("overall_status", r.overall_status),
                Item("recommendations", PyList(r.recommendations)),
                Item("warnings", PyList(r.warnings)),
                Item("timestamp", r.timestamp)>>)

asdict(r) ==
    PyDict(<<Item("cpu", AsDictCPU(r.cpu)), Item("memory", AsDictMemory(r.memory)),
             Item("gpu", AsDictGPU(r.gpu)), Item("storage", AsDictStorage(r.storage)),
             Item("overall_status", r.overall_status),
             Item("recommendations", PyList(r.recommendations)),
             Item("warnings", PyList(r.warnings)),
             Item("timestamp", r.timestamp)>>)

Tok(t) == [t |-> t]
StrTok(s) == [t |-> "string", s |-> s]

\* the digits after the point of repr(h / 100)
FracDigits(h) ==
    IF (h % 100) % 10 = 0 THEN <<(h % 100) \div 10>>
    ELSE <<(h % 100) \div 10, (h % 100) % 10>>

NumTok(n) ==
    [t |-> "number", ip |-> n.h \div 100,
     frac |-> IF n.ty = "int" THEN <<>> ELSE FracDigits(n.h)]

RECURSIVE Dumps(_)
RECURSIVE DumpsItems(_, _, _)

\* json.dump: the tokens of value v
Dumps(v) ==
    IF IsNone(v) THEN <<Tok("null")>>
    ELSE IF IsStr(v) THEN <<StrTok(v)>>
    ELSE IF v.ty = "bool" THEN <<Tok(IF v.b THEN "true" ELSE "false")>>
    ELSE IF v.ty \in {"int", "float"} THEN <<NumTok(v)>>
    ELSE IF v.ty = "list" THEN <<Tok("[")>> \o DumpsItems(v.items, 1, FALSE) \o <<Tok("]")>>
    ELSE <<Tok("{")>> \o DumpsItems(v.items, 1, TRUE) \o <<Tok("}")>>

\* items i.. of a list or of a dict, separated by commas
DumpsItems(items, i, keyed) ==
    IF i > Len(items) THEN <<>>
    ELSE (IF i > 1 THEN <<Tok(",")>> ELSE <<>>)
         \o (IF keyed
             THEN <<StrTok(Str(items[i].k)), Tok(":")>> \o Dumps(items[i].v)
             ELSE Dumps(items[i]))
         \o DumpsItems(items, i + 1, keyed)

\* json.load.  A result is [ok, v, next]: the value read and the index of
\* the first token after it; ok is FALSE where the decoder raises.
ParseFail == [ok |-> FALSE, v |-> None, next |-> 0]
Parsed(v, next) == [ok |-> TRUE, v |-> v, next |-> next]

ParseNumber(tk) ==
    IF tk.frac = <<>> THEN PyInt(tk.ip)
    ELSE IF Len(tk.frac) = 1 THEN Float(tk.ip * 100 + tk.frac[1] * 10)
    ELSE Float(tk.ip * 100 + tk.frac[1] * 10 + tk.frac[2])

RECURSIVE ParseValue(_, _)
RECURSIVE ParseMembers(_, _, _)
RECURSIVE ParseElements(_, _, _)

ParseValue(toks, i) ==
    IF i > Len(toks) THEN ParseFail
    ELSE LET tk == toks[i]
         IN  IF tk.t = "null" THEN Parsed(None, i + 1)
             ELSE IF tk.t = "true" THEN Parsed(PyBool(TRUE), i + 1)
             ELSE IF tk.t = "false" THEN Parsed(PyBool(FALSE), i + 1)
             ELSE IF tk.t = "string" THEN Parsed(tk.s, i + 1)
             ELSE IF tk.t = "number" THEN Parsed(ParseNumber(tk), i + 1)
             ELSE IF tk.t = "[" THEN
                 IF i + 1 <= Len(toks) /\ toks[i + 1].t = "]"
                 THEN Parsed(PyList(<<>>), i + 2)
                 ELSE ParseElements(toks, i + 1, <<>>)
             ELSE IF tk.t = "{" THEN
                 IF i + 1 <= Len(toks) /\ toks[i + 1].t = "}"
                 THEN Parsed(PyDict(<<>>), i + 2)
                 ELSE ParseMembers(toks, i + 1, <<>>)
             ELSE ParseFail

\* the elements of an array from token i on, acc being those already read
ParseElements(toks, i, acc) ==
    LET r == ParseValue(toks, i)
    IN  IF ~r.ok \/ r.next > Len(toks) THEN ParseFail
        ELSE IF toks[r.next].t = ","
        THEN ParseElements(toks, r.next + 1, Append(acc, r.v))
        ELSE IF toks[r.next].t = "]"
        THEN Parsed(PyList(Append(acc, r.v)), r.next + 1)
        ELSE ParseFail

\* the members of an object from token i on
ParseMembers(toks, i, acc) ==
    IF i + 1 > Len(toks) THEN ParseFail
    ELSE IF toks[i].t # "string" \/ toks[i + 1].t # ":" THEN ParseFail
    ELSE LET r == ParseValue(toks, i + 2)
         IN  IF ~r.ok \/ r.next > Len(toks) THEN ParseFail
             ELSE IF toks[r.next].t = ","
             THEN ParseMembers(toks, r.next + 1,
                               Append(acc, Item(toks[i].s.text, r.v)))
             ELSE IF toks[r.next].t = "}"
             THEN Parsed(PyDict(Append(acc, Item(toks[i].s.text, r.v))),
                         r.next + 1)
             ELSE ParseFail

\* json.load of a whole text: one value and nothing after it
Loads(toks) ==
    LET r == ParseValue(toks, 1)
    IN  IF r.ok /\ r.next = Len(toks) + 1 THEN r ELSE ParseFail

(***************************************************************************)
(* What the machine can answer to the probes.                              *)
(***************************************************************************)
Platforms == {"Linux", "Windows", "Darwin"}

\* bounds of the model
MaxPhysicalCores == 13      \* probes called on their own: physical cores 1..
Slack == 2                  \* raw values this far on each side of an edge
MaxPartialWrite == 2        \* chunks written before a failing write

CpuAnswer(ok, physical, logical) ==
    [ok |-> ok, model |-> "AMD Ryzen 7 7700X 8-Core Processor",
     arch |-> "x86_64", physical |-> physical, logical |-> logical]

MemAnswer(ok, total, available) ==
    [ok |-> ok, total |-> total, available |-> available]

GpuAnswer(smi, vram_mb, cap_ok) ==
    [smi |-> smi, name |-> "NVIDIA RTX 5090", vram_mb |-> vram_mb,
     driver |-> "560.35", cuda |-> "12.6", cap |-> "9.0", cap_ok |-> cap_ok]

StorageAnswer(ok, blocks, bavail, df_ok) ==
    [ok |-> ok, blocks |-> blocks, bavail |-> bavail, frsize_log2 |-> 12,
     df_ok |-> df_ok, fstype |-> "ext4"]

\* the raw values within Slack of an edge
Near(edge) == (edge - Slack)..(edge + Slack)

\* the largest distance below a whole GB that still rounds up to it:
\* floor(0.005 * unit)
HalfCent(unit) == unit \div 200

\* a run of main: a few machines of every class
CpuAnswers ==
    {CpuAnswer(TRUE, c[1], c[2]) :
        c \in {<<MIN_CPU_CORES \div 2, MIN_CPU_CORES \div 2>>,
               <<MIN_CPU_CORES \div 2, MIN_CPU_CORES>>,
               <<MIN_CPU_CORES, 2 * MIN_CPU_CORES>>,
               <<RECOMMENDED_CPU_CORES, 2 * RECOMMENDED_CPU_CORES>>}}
    \cup {CpuAnswer(FALSE, 0, 0)}

MemAnswers ==
    {MemAnswer(TRUE, t, t \div 3) :
        t \in {MIN_RAM_GB * KB_PER_GB - 1, MIN_RAM_GB * KB_PER_GB,
               RECOMMENDED_RAM_GB * KB_PER_GB}}
    \cup {MemAnswer(FALSE, 0, 0)}

GpuAnswers ==
    {GpuAnswer("ok", v, TRUE) :
        v \in {(MIN_VRAM_GB \div 2) * MB_PER_GB, MIN_VRAM_GB * MB_PER_GB,
               OPTIMAL_VRAM_GB * MB_PER_GB,
               MIN_VRAM_GB * MB_PER_GB - HalfCent(MB_PER_GB) - 1,
               MIN_VRAM_GB * MB_PER_GB - HalfCent(MB_PER_GB),
               OPTIMAL_VRAM_GB * MB_PER_GB - HalfCent(MB_PER_GB) - 1,
               OPTIMAL_VRAM_GB * MB_PER_GB - HalfCent(MB_PER_GB)}}
    \cup {GpuAnswer("ok", RECOMMENDED_VRAM_GB * MB_PER_GB, FALSE),
          GpuAnswer("CalledProcessError", 0, TRUE),
          GpuAnswer("Exception", 0, TRUE)}

StorageAnswers ==
    LET gb == Pow2(BYTES_PER_GB_LOG2 - 12)
    IN  {StorageAnswer(TRUE, 10 * MIN_STORAGE_GB * gb, a, TRUE) :
            a \in {MIN_STORAGE_GB * gb - 1, MIN_STORAGE_GB * gb}}
        \cup {StorageAnswer(TRUE, 10 * MIN_STORAGE_GB * gb,
                            4 * MIN_STORAGE_GB * gb, FALSE),
              StorageAnswer(FALSE, 0, 0, TRUE)}

\* a probe called on its own: every raw value near a threshold or near the
\* point where the rounded value reaches it
WideCpuAnswers ==
    UNION {{CpuAnswer(TRUE, p, p), CpuAnswer(TRUE, p, 2 * p)} :
              p \in 1..MaxPhysicalCores}
    \cup {CpuAnswer(FALSE, 0, 0)}

WideMemAnswers ==
    {MemAnswer(TRUE, t, t \div 3) :
        t \in UNION {Near(g * KB_PER_GB) \cup Near(g * KB_PER_GB - HalfCent(KB_PER_GB)) :
                        g \in {MIN_RAM_GB, RECOMMENDED_RAM_GB}}}
    \cup {MemAnswer(FALSE, 0, 0)}

WideGpuAnswers ==
    {GpuAnswer("ok", v, c) :
        v \in UNION {Near(g * MB_PER_GB) \cup Near(g * MB_PER_GB - HalfCent(MB_PER_GB)) :
                        g \in {MIN_VRAM_GB, RECOMMENDED_VRAM_GB, OPTIMAL_VRAM_GB}},
        c \in BOOLEAN}
    \cup {GpuAnswer("CalledProcessError", 0, TRUE), GpuAnswer("Exception", 0, TRUE)}

WideStorageAnswers ==
    LET gb == Pow2(BYTES_PER_GB_LOG2 - 12)
    IN  {StorageAnswer(TRUE, 10 * MIN_STORAGE_GB * gb, a, d) :
            a \in Near(MIN_STORAGE_GB * gb) \cup Near(MIN_STORAGE_GB * gb - HalfCent(gb)),
            d \in BOOLEAN}
        \cup {StorageAnswer(FALSE, 0, 0, TRUE)}

Timestamps == {"2025-01-01T00:00:00"}

\* the report an earlier run left at the output path
PreviousReport ==
    Evaluate(get_cpu_info("Linux", CpuAnswer(TRUE, MIN_CPU_CORES, 2 * MIN_CPU_CORES)),
             get_memory_info("Linux", MemAnswer(TRUE, MIN_RAM_GB * KB_PER_GB, 0)),
             get_gpu_info(GpuAnswer("CalledProcessError", 0, TRUE)),
             get_storage_info("Linux", StorageAnswer(FALSE, 0, 0, TRUE)),
             "2024-12-31T00:00:00")

NoFile == [exists |-> FALSE, toks |-> <<>>]
FileWith(toks) == [exists |-> TRUE, toks |-> toks]
PreviousFile == FileWith(Dumps(asdict(PreviousReport)))

Call(fn, plat, hw, value) == [fn |-> fn, platform |-> plat, hw |-> hw, value |-> value]
NoCall == Call("none", "", None, None)

NoAnswers == [cpu |-> None, memory |-> None, gpu |-> None, storage |-> None]

(***************************************************************************)
(* main.  pc is the statement main is at; validate runs its four probes in *)
(* order and then evaluates.                                               *)
(***************************************************************************)
Init ==
    /\ platform \in Platforms
    /\ quiet \in BOOLEAN
    /\ file \in {NoFile, PreviousFile}
    /\ pc = "get_cpu_info"
    /\ cpu = None /\ memory = None /\ gpu = None /\ storage = None
    /\ report = None
    /\ stdout = <<>> /\ stderr = <<>>
    /\ handle = "none"
    /\ exc = "none"
    /\ exit_status = -1
    /\ ret = NoCall
    /\ machine = NoAnswers

\* validate: cpu = self.get_cpu_info()
ValidateCpu ==
    /\ pc = "get_cpu_info"
    /\ \E hw \in CpuAnswers :
          /\ cpu' = get_cpu_info(platform, hw)
          /\ stderr' = stderr \o CpuDiagnostic(hw)
          /\ machine' = [machine EXCEPT !.cpu = hw]
    /\ pc' = "get_memory_info"
    /\ UNCHANGED <<platform, quiet, memory, gpu, storage, report, stdout, file,
                   handle, exc, exit_status, ret>>

\* validate: memory = self.get_memory_info()
ValidateMemory ==
    /\ pc = "get_memory_info"
    /\ \E hw \in MemAnswers :
          /\ memory' = get_memory_info(platform, hw)
          /\ stderr' = stderr \o MemDiagnostic(hw)
          /\ machine' = [machine EXCEPT !.memory = hw]
    /\ pc' = "get_gpu_info"
    /\ UNCHANGED <<platform, quiet, cpu, gpu, storage, report, stdout, file,
                   handle, exc, exit_status, ret>>

\* validate: gpu = self.get_gpu_info()
ValidateGpu ==
    /\ pc = "get_gpu_info"
    /\ \E hw \in GpuAnswers :
          /\ gpu' = get_gpu_info(hw)
          /\ stderr' = stderr \o GpuDiagnostic(hw)
          /\ machine' = [machine EXCEPT !.gpu = hw]
    /\ pc' = "get_storage_info"
    /\ UNCHANGED <<platform, quiet, cpu, memory, storage, report, stdout, file,
                   handle, exc, exit_status, ret>>

\* validate: storage = self.get_storage_info()
ValidateStorage ==
    /\ pc = "get_storage_info"
    /\ \E hw \in StorageAnswers :
          /\ storage' = get_storage_info(platform, hw)
          /\ stderr' = stderr \o StorageDiagnostic(hw)
          /\ machine' = [machine EXCEPT !.storage = hw]
    /\ pc' = "evaluate"
    /\ UNCHANGED <<platform, quiet, cpu, memory, gpu, report, stdout, file,
                   handle, exc, exit_status, ret>>

\* validate: the evaluation and the return; main: report = validator.validate()
ValidateReturn ==
    /\ pc = "evaluate"
    /\ \E now \in Timestamps :
          report' = Evaluate(cpu, memory, gpu, storage, now)
    /\ pc' = "print_report"
    /\ UNCHANGED <<platform, quiet, cpu, memory, gpu, storage, stdout, stderr,
                   file, handle, exc, exit_status, ret, machine>>

\* print_report: the last lines printed, keyed by overall status
Verdict(status) ==
    IF status = Str("PASSED") THEN "SYSTEM VALIDATION PASSED"
    ELSE IF status = Str("PASSED_WITH_WARNINGS")
    THEN "SYSTEM VALIDATION PASSED WITH WARNINGS"
    ELSE "SYSTEM VALIDATION FAILED"

\* main: if not args.quiet: validator.print_report(report)
MainPrintReport ==
    /\ pc = "print_report"
    /\ stdout' = IF quiet THEN stdout
                 ELSE stdout \o <<"SYSTEM VALIDATION REPORT",
                                  Verdict(report.overall_status)>>
    /\ pc' = "save_report"
    /\ UNCHANGED <<platform, quiet, cpu, memory, gpu, storage, report, stderr,
                   file, handle, exc, exit_status, ret, machine>>

\* save_report: with output_file.open('w') as f -- the open either raises
\* and leaves the path alone, or creates the file or truncates it
SaveOpen ==
    /\ pc = "save_report"
    /\ \/ /\ file' = FileWith(<<>>)
          /\ handle' = "open"
          /\ exc' = exc
          /\ pc' = "json_dump"
       \/ /\ exc' = "OSError"
          /\ pc' = "uncaught"
          /\ UNCHANGED <<file, handle>>
    /\ UNCHANGED <<platform, quiet, cpu, memory, gpu, storage, report, stdout,
                   stderr, exit_status, ret, machine>>

\* the first n elements of s
Prefix(s, n) == SubSeq(s, 1, IF n < Len(s) THEN n ELSE Len(s))

\* save_report: the body of the with statement.  asdict may raise before
\* anything is written; json.dump writes the text chunk by chunk and a write
\* may raise after some of them.
SaveDump ==
    /\ pc = "json_dump"
    /\ LET text == Dumps(asdict(report))
       IN  \/ /\ file' = FileWith(text)
              /\ exc' = exc
           \/ /\ exc' = "TypeError"
              /\ file' = file
           \/ \E n \in 0..MaxPartialWrite :
                 /\ n < Len(text)
                 /\ file' = FileWith(Prefix(text, n))
                 /\ exc' = "OSError"
    /\ pc' = "with_exit"
    /\ UNCHANGED <<platform, quiet, cpu, memory, gpu, storage, report, stdout,
                   stderr, handle, exit_status, ret, machine>>

\* faulty variant: f is closed only when the body of the with statement
\* did not raise
SaveCloseOnSuccess ==
    /\ pc = "with_exit"
    /\ handle' = IF exc = "none" THEN "closed" ELSE handle
    /\ pc' = IF exc = "none" THEN "saved" ELSE "uncaught"
    /\ UNCHANGED <<platform, quiet, cpu, memory, gpu, storage, report, stdout,
                   stderr, file, exc, exit_status, ret, machine>>

\* save_report: leaving the with statement closes f, on every path
SaveClose ==
    /\ pc = "with_exit"
    /\ handle' = "closed"
    /\ pc' = IF exc = "none" THEN "saved" ELSE "uncaught"
    /\ UNCHANGED <<platform, quiet, cpu, memory, gpu, storage, report, stdout,
                   stderr, file, exc, exit_status, ret, machine>>

\* save_report: print(f"Report saved to: ...")
SaveAnnounce ==
    /\ pc = "saved"
    /\ stdout' = Append(stdout, "Report saved to:")
    /\ pc' = "exit"
    /\ UNCHANGED <<platform, quiet, cpu, memory, gpu, storage, report, stderr,
                   file, handle, exc, exit_status, ret, machine>>

\* faulty variant: warnings make the run fail
ExitCodeStrict(status) ==
    IF status = Str("PASSED") THEN 0 ELSE 1

\* the status sys.exit is called with at the end of main
ExitCode(status) ==
    IF status = Str("FAILED") THEN 1
    ELSE IF status = Str("PASSED_WITH_WARNINGS") THEN 0
    ELSE 0

\* main: sys.exit(...)
MainExit ==
    /\ pc = "exit"
    /\ exit_status' = ExitCode(report.overall_status)
    /\ pc' = "done"
    /\ UNCHANGED <<platform, quiet, cpu, memory, gpu, storage, report, stdout,
                   stderr, file, handle, exc, ret, machine>>

\* an exception that leaves main: the interpreter prints the traceback and
\* the process ends with status 1
MainUncaught ==
    /\ pc = "uncaught"
    /\ stderr' = Append(stderr, "Traceback (most recent call last):")
    /\ exit_status' = 1
    /\ pc' = "done"
    /\ UNCHANGED <<platform, quiet, cpu, memory, gpu, storage, report, stdout,
                   file, handle, exc, ret, machine>>

Next ==
    \/ ValidateCpu
    \/ ValidateMemory
    \/ ValidateGpu
    \/ ValidateStorage
    \/ ValidateReturn
    \/ MainPrintReport
    \/ SaveOpen
    \/ SaveDump
    \/ SaveClose
    \/ SaveAnnounce
    \/ MainExit
    \/ MainUncaught

Spec == Init /\ [][Next]_vars

(***************************************************************************)
(* The probes called on their own, as the unit tests call them, on every   *)
(* platform and on every raw value near a threshold.                       *)
(***************************************************************************)
ProbeInit ==
    /\ platform = "Linux"
    /\ quiet = FALSE
    /\ file = NoFile
    /\ pc = "probe"
    /\ cpu = None /\ memory = None /\ gpu = None /\ storage = None
    /\ report = None
    /\ stdout = <<>> /\ stderr = <<>>
    /\ handle = "none"
    /\ exc = "none"
    /\ exit_status = -1
    /\ ret = NoCall
    /\ machine = NoAnswers

CallGetCpuInfo ==
    /\ pc = "probe"
    /\ \E plat \in Platforms, hw \in WideCpuAnswers :
          ret' = Call("get_cpu_info", plat, hw, get_cpu_info(plat, hw))
    /\ UNCHANGED <<platform, quiet, pc, cpu, memory, gpu, storage, report,
                   stdout, stderr, file, handle, exc, exit_status, machine>>

CallGetMemoryInfo ==
    /\ pc = "probe"
    /\ \E plat \in Platforms, hw \in WideMemAnswers :
          ret' = Call("get_memory_info", plat, hw, get_memory_info(plat, hw))
    /\ UNCHANGED <<platform, quiet, pc, cpu, memory, gpu, storage, report,
                   stdout, stderr, file, handle, exc, exit_status, machine>>

CallGetGpuInfo ==
    /\ pc = "probe"
    /\ \E plat \in Platforms, hw \in WideGpuAnswers :
          ret' = Call("get_gpu_info", plat, hw, get_gpu_info(hw))
    /\ UNCHANGED <<platform, quiet, pc, cpu, memory, gpu, storage, report,
                   stdout, stderr, file, handle, exc, exit_status, machine>>

CallGetStorageInfo ==
    /\ pc = "probe"
    /\ \E plat \in Platforms, hw \in WideStorageAnswers :
          ret' = Call("get_storage_info", plat, hw, get_storage_info(plat, hw))
    /\ UNCHANGED <<platform, quiet, pc, cpu, memory, gpu, storage, report,
                   stdout, stderr, file, handle, exc, exit_status, machine>>

ProbeNext ==
    \/ CallGetCpuInfo
    \/ CallGetMemoryInfo
    \/ CallGetGpuInfo
    \/ CallGetStorageInfo

SpecProbes == ProbeInit /\ [][ProbeNext]_vars

(***************************************************************************)
(* Properties.                                                             *)
(***************************************************************************)
Returned == report # None

Contains(seq, x) == \E i \in 1..Len(seq) : seq[i] = x

MeetsEveryMinimum(r) ==
    r.cpu.meets_minimum /\ r.memory.meets_minimum /\ r.storage.meets_minimum

\* C1: every report returned by validate is FAILED if and only if the CPU,
\* the memory or the storage misses its minimum, whatever the GPU fact is
\* (present with any VRAM, or absent).
FailedIffMinimumMissed ==
    Returned =>
        ((report.overall_status = Str("FAILED")) <=> ~MeetsEveryMinimum(report))

\* a FAILED report of a machine whose GPU has the optimal VRAM
FailedWithOptimalGpu ==
    /\ Returned
    /\ report.overall_status = Str("FAILED")
    /\ report.gpu # None
    /\ report.gpu.vram_gb.h >= OPTIMAL_VRAM_GB * 100
    /\ report.cpu.meets_minimum /\ report.storage.meets_minimum
    /\ ~report.memory.meets_minimum

\* C2: when CPU, memory and storage meet their minimum and the GPU probe
\* returns None, the report is PASSED_WITH_WARNINGS, its warnings hold the
\* no-GPU warning and its recommendations the add-a-GPU recommendation.
NoGpuPassesWithWarnings ==
    (Returned /\ MeetsEveryMinimum(report) /\ report.gpu = None) =>
        /\ report.overall_status = Str("PASSED_WITH_WARNINGS")
        /\ Contains(report.warnings,
               Str("No NVIDIA GPU detected - will use CPU-only inference (very slow)"))
        /\ Contains(report.recommendations,
               Str("Add NVIDIA GPU with 24GB+ VRAM for 10-20x speedup"))

\* a report of a machine that meets every minimum and has no GPU
NoGpuReport ==
    /\ Returned
    /\ MeetsEveryMinimum(report)
    /\ report.gpu = None
    /\ report.overall_status = Str("PASSED_WITH_WARNINGS")

\* C3: when no minimum is missed the report is PASSED_WITH_WARNINGS exactly
\* when it has a warning and PASSED exactly when it has none; a machine that
\* meets every minimum and whose GPU has the optimal VRAM is PASSED without
\* a warning, also when its CPU and memory are below the recommended level
\* and the report therefore carries recommendations.
PassedIffNoWarning ==
    (Returned /\ MeetsEveryMinimum(report)) =>
        /\ (report.overall_status = Str("PASSED_WITH_WARNINGS"))
               <=> (report.warnings # <<>>)
        /\ (report.overall_status = Str("PASSED")) <=> (report.warnings = <<>>)
        /\ (report.gpu # None /\ report.gpu.vram_gb.h >= OPTIMAL_VRAM_GB * 100) =>
               /\ report.overall_status = Str("PASSED")
               /\ report.warnings = <<>>
               /\ (~report.cpu.meets_recommended \/ ~report.memory.meets_recommended)
                      => report.recommendations # <<>>

\* a PASSED report with recommendations for the CPU and the memory
PassedWithRecommendations ==
    /\ Returned
    /\ MeetsEveryMinimum(report)
    /\ ~report.cpu.meets_recommended /\ ~report.memory.meets_recommended
    /\ report.gpu # None /\ report.gpu.vram_gb.h >= OPTIMAL_VRAM_GB * 100
    /\ report.overall_status = Str("PASSED")
    /\ Len(report.recommendations) >= 3

\* C4: every CPU fact get_cpu_info returns, on every platform and on the
\* failure path, has meets_minimum = (cores >= 8) and meets_recommended =
\* (cores >= 12) for the cores it stores; so meets_recommended implies
\* meets_minimum.
CpuFlagsMatchCores ==
    (ret.fn = "get_cpu_info") =>
        /\ ret.value.meets_minimum <=> (ret.value.cores >= 8)
        /\ ret.value.meets_recommended <=> (ret.value.cores >= 12)
        /\ ret.value.meets_recommended => ret.value.meets_minimum

\* the fact returned when the probe fails
CpuProbeFailed ==
    /\ ret.fn = "get_cpu_info"
    /\ ~ret.hw.ok
    /\ ret.value.cores = 0
    /\ ~ret.value.meets_minimum /\ ~ret.value.meets_recommended

\* C5: every memory fact get_memory_info returns has meets_minimum =
\* (total_gb >= 32) and meets_recommended = (total_gb >= 40) for the
\* two-decimal total_gb it stores.  (Fails: the flags are decided on the
\* unrounded quotient.)
MemFlagsMatchReportedTotal ==
    (ret.fn = "get_memory_info") =>
        /\ ret.value.meets_minimum <=> (ret.value.total_gb.h >= 32 * 100)
        /\ ret.value.meets_recommended <=> (ret.value.total_gb.h >= 40 * 100)

\* C6: the quantization get_gpu_info recommends is decided by the stored
\* vram_gb alone, with boundaries at exactly 16, 24 and 32 GB, and the tier
\* never goes down when vram_gb goes up.
TierOf(q) ==
    IF q = Str("Q6_K or Q8_0 (full GPU offload)") THEN 3
    ELSE IF q = Str("Q5_K_M (full GPU offload)") THEN 2
    ELSE IF q = Str("Q4_K_M (partial GPU offload)") THEN 1
    ELSE IF q = Str("Q4_K_M (CPU-heavy, limited GPU)") THEN 0
    ELSE -1

QuantizationByStoredVram ==
    (ret.fn = "get_gpu_info" /\ ret.value # None) =>
        LET v == ret.value.vram_gb.h
            q == ret.value.recommended_quantization
        IN  /\ (v >= 3200) => TierOf(q) = 3
            /\ (2400 <= v /\ v < 3200) => TierOf(q) = 2
            /\ (1600 <= v /\ v < 2400) => TierOf(q) = 1
            /\ (v < 1600) => TierOf(q) = 0
            /\ \A hw \in WideGpuAnswers :
                  (hw.smi = "ok" /\ get_gpu_info(hw).vram_gb.h >= v) =>
                      TierOf(get_gpu_info(hw).recommended_quantization) >= TierOf(q)

\* a GPU whose 16379 MiB are stored as 16.0 GB: the partial-offload tier
VramRoundedUpToMinimum ==
    /\ ret.fn = "get_gpu_info"
    /\ ret.value # None
    /\ ret.hw.vram_mb < MIN_VRAM_GB * MB_PER_GB
    /\ ret.value.vram_gb.h = 1600
    /\ ret.value.recommended_quantization = Str("Q4_K_M (partial GPU offload)")

\* C7 as stated: in every run of main the exit status is non-zero when the
\* report is FAILED and zero otherwise.  (Fails: an exception of save_report
\* ends the run with status 1 whatever the report says.)
Exited == pc = "done"

ExitStatusByOverallStatus ==
    Exited => ((exit_status # 0) <=> (report.overall_status = Str("FAILED")))

\* C7 amended: a run in which save_report returns ends with a non-zero
\* status when the report is FAILED and with zero otherwise; a run in which
\* save_report raises ends with a non-zero status.
ExitStatusWhenSaved ==
    Exited =>
        IF exc = "none"
        THEN (exit_status # 0) <=> (report.overall_status = Str("FAILED"))
        ELSE exit_status # 0

\* a run that ends with status 0 on a report with warnings
ExitZeroWithWarnings ==
    /\ Exited
    /\ exc = "none"
    /\ report.overall_status = Str("PASSED_WITH_WARNINGS")
    /\ exit_status = 0

\* C8: a failure inside a probe never leaves it as an exception: the CPU,
\* memory and storage probes return a zeroed fact with every flag false, the
\* GPU probe returns None; validate goes on to return a report, which is
\* FAILED when the CPU, memory or storage probe failed and is not FAILED
\* when only the GPU probe failed.
Asked(probe) == machine[probe] # None

InValidate ==
    pc \in {"get_cpu_info", "get_memory_info", "get_gpu_info",
            "get_storage_info", "evaluate"}

GpuProbeFailed == Asked("gpu") /\ machine.gpu.smi # "ok"

ProbeFailureIsContained ==
    /\ (Asked("cpu") /\ ~machine.cpu.ok) =>
           /\ cpu.cores = 0 /\ cpu.threads = 0
           /\ ~cpu.meets_minimum /\ ~cpu.meets_recommended
    /\ (Asked("memory") /\ ~machine.memory.ok) =>
           /\ memory.total_gb.h = 0 /\ memory.available_gb.h = 0
           /\ ~memory.meets_minimum /\ ~memory.meets_recommended
    /\ (Asked("storage") /\ ~machine.storage.ok) =>
           /\ storage.total_gb.h = 0 /\ storage.available_gb.h = 0
           /\ ~storage.meets_minimum
    /\ GpuProbeFailed => gpu = None
    /\ InValidate => (exc = "none" /\ exit_status = -1)
    /\ ~InValidate => Returned
    /\ Returned =>
           /\ ((~machine.cpu.ok \/ ~machine.memory.ok \/ ~machine.storage.ok)
                  => report.overall_status = Str("FAILED"))
           /\ (GpuProbeFailed /\ MeetsEveryMinimum(report))
                  => report.overall_status = Str("PASSED_WITH_WARNINGS")

\* a report returned after the CPU probe and the GPU probe both failed
ReportAfterFailedProbes ==
    /\ Returned
    /\ ~machine.cpu.ok
    /\ machine.gpu.smi = "Exception"
    /\ machine.memory.ok /\ machine.storage.ok
    /\ report.gpu = None
    /\ report.overall_status = Str("FAILED")

\* C9: the JSON save_report writes, parsed back, has exactly the top-level
\* fields cpu, memory, gpu, storage, overall_status, recommendations,
\* warnings, timestamp and gives back every field of the report: an absent
\* GPU as null, the warnings and the recommendations in their order.
Get(d, k) == d.items[CHOOSE i \in 1..Len(d.items) : d.items[i].k = k].v
Keys(d) == [i \in 1..Len(d.items) |-> d.items[i].k]

CpuOfJson(d) ==
    CPUInfo(Get(d, "model"), Get(d, "cores").h \div 100,
            Get(d, "threads").h \div 100, Get(d, "architecture"),
            Get(d, "meets_minimum").b, Get(d, "meets_recommended").b)

MemoryOfJson(d) ==
    MemoryInfo(Get(d, "total_gb"), Get(d, "available_gb"),
               Get(d, "meets_minimum").b, Get(d, "meets_recommended").b)

GpuOfJson(d) ==
    IF IsNone(d) THEN None
    ELSE GPUInfo(Get(d, "name"), Get(d, "vram_gb"), Get(d, "cuda_version"),
                 Get(d, "driver_version"), Get(d, "compute_capability"),
                 Get(d, "is_available").b, Get(d, "recommended_quantization"))

StorageOfJson(d) ==
    StorageInfo(Get(d, "total_gb"), Get(d, "available_gb"),
                Get(d, "meets_minimum").b, Get(d, "filesystem"))

ReportOfJson(d) ==
    SystemReport(CpuOfJson(Get(d, "cpu")), MemoryOfJson(Get(d, "memory")),
                 GpuOfJson(Get(d, "gpu")), StorageOfJson(Get(d, "storage")),
                 Get(d, "overall_status"), Get(d, "recommendations").items,
                 Get(d, "warnings").items, Get(d, "timestamp"))

Saved == pc \in {"saved", "exit"} \/ (pc = "done" /\ exc = "none")

SavedReportReadsBack ==
    Saved =>
        /\ file.exists
        /\ Loads(file.toks).ok
        /\ Keys(Loads(file.toks).v) =
               <<"cpu", "memory", "gpu", "storage", "overall_status",
                 "recommendations", "warnings", "timestamp">>
        /\ ReportOfJson(Loads(file.toks).v) = report

\* a saved report without a GPU, with two warnings and a two-decimal value
SavedReportWithoutGpu ==
    /\ Saved
    /\ report.gpu = None
    /\ Get(Loads(file.toks).v, "gpu") = None
    /\ Len(report.warnings) >= 2
    /\ report.memory.available_gb.h % 10 # 0

\* C10 as stated: when save_report fails the output path holds its previous
\* content or a complete JSON report, never an empty or truncated document.
\* (Fails: open('w') truncates the file before anything is written.)
NoPartialFileOnFailure ==
    (exc # "none") =>
        \/ file \in {NoFile, PreviousFile}
        \/ (file.exists /\ Loads(file.toks).ok)

\* C11 as stated: in a run of main with the quiet flag nothing is printed to
\* standard output, by print_report or by any later step, and the JSON report
\* is still written; without the flag the text report is printed and the
\* JSON is written as well.  (Fails: save_report prints "Report saved to:"
\* whatever the flag is.)
QuietPrintsNothing ==
    /\ quiet => stdout = <<>>
    /\ (Exited /\ exc = "none") =>
           /\ file.exists /\ Loads(file.toks).ok
           /\ ~quiet => Contains(stdout, "SYSTEM VALIDATION REPORT")

\* the resource a warning is about: 1 CPU, 2 memory, 3 GPU, 4 storage
WarningAbout(w) ==
    IF w.text = "CPU has only {} cores (minimum: {})" THEN 1
    ELSE IF w.text = "RAM is {}GB (minimum: {}GB)" THEN 2
    ELSE IF w.text \in {"No NVIDIA GPU detected - will use CPU-only inference (very slow)",
                        "GPU VRAM is {}GB (recommended: {}GB+)"} THEN 3
    ELSE IF w.text = "Only {}GB available (minimum: {}GB)" THEN 4
    ELSE 0

\* the resource a recommendation is about
RecommendationAbout(r) ==
    IF r.text \in {"Upgrade to a CPU with at least 8 cores for acceptable performance",
                   "CPU has {} cores. 12+ cores recommended for optimal performance"} THEN 1
    ELSE IF r.text \in {"CRITICAL: Upgrade RAM to at least 32GB to run 70B model",
                        "RAM is {}GB. 40GB+ recommended for Q5_K_M or higher"} THEN 2
    ELSE IF r.text \in {"Add NVIDIA GPU with 24GB+ VRAM for 10-20x speedup",
                        "GPU will be underutilized. Consider hybrid CPU/GPU inference",
                        "Excellent! {}GB VRAM enables Q6_K or Q8_0 quantization"} THEN 3
    ELSE IF r.text = "Free up disk space or use a larger drive" THEN 4
    ELSE 0

\* C12: in every report returned by validate the warnings and the
\* recommendations are each in the order CPU, memory, GPU, storage, and no
\* resource has more than one warning or more than one recommendation.
MessagesInResourceOrder ==
    Returned =>
        /\ \A i \in 1..Len(report.warnings) :
              /\ WarningAbout(report.warnings[i]) \in 1..4
              /\ \A j \in 1..Len(report.warnings) :
                    i < j => WarningAbout(report.warnings[i])
                                 < WarningAbout(report.warnings[j])
        /\ \A i \in 1..Len(report.recommendations) :
              /\ RecommendationAbout(report.recommendations[i]) \in 1..4
              /\ \A j \in 1..Len(report.recommendations) :
                    i < j => RecommendationAbout(report.recommendations[i])
                                 < RecommendationAbout(report.recommendations[j])

\* a report with a warning and a recommendation for each of the four
FourWarnings ==
    /\ Returned
    /\ Len(report.warnings) = 4
    /\ Len(report.recommendations) = 4
    /\ WarningAbout(report.warnings[3]) = 3
    /\ WarningAbout(report.warnings[4]) = 4

\* how many warnings and recommendations of report r are about resource k
WarningsAbout(r, k) ==
    Cardinality({i \in 1..Len(r.warnings) : WarningAbout(r.warnings[i]) = k})

RecommendationsAbout(r, k) ==
    Cardinality({i \in 1..Len(r.recommendations) :
                    RecommendationAbout(r.recommendations[i]) = k})

\* C13: for the CPU and for the memory, validate emits one warning and the
\* upgrade recommendation when the resource misses its minimum, one
\* recommendation and no warning when it meets the minimum but not the
\* recommended level, and nothing when it meets the recommended level.
CpuAndMemoryMessages ==
    Returned =>
        /\ ~report.cpu.meets_minimum =>
               /\ WarningsAbout(report, 1) = 1
               /\ RecommendationsAbout(report, 1) = 1
               /\ Contains(report.recommendations,
                      Str("Upgrade to a CPU with at least 8 cores for acceptable performance"))
        /\ (report.cpu.meets_minimum /\ ~report.cpu.meets_recommended) =>
               /\ WarningsAbout(report, 1) = 0
               /\ RecommendationsAbout(report, 1) = 1
        /\ report.cpu.meets_recommended =>
               /\ WarningsAbout(report, 1) = 0
               /\ RecommendationsAbout(report, 1) = 0
        /\ ~report.memory.meets_minimum =>
               /\ WarningsAbout(report, 2) = 1
               /\ RecommendationsAbout(report, 2) = 1
               /\ Contains(report.recommendations,
                      Str("CRITICAL: Upgrade RAM to at least 32GB to run 70B model"))
        /\ (report.memory.meets_minimum /\ ~report.memory.meets_recommended) =>
               /\ WarningsAbout(report, 2) = 0
               /\ RecommendationsAbout(report, 2) = 1
        /\ report.memory.meets_recommended =>
               /\ WarningsAbout(report, 2) = 0
               /\ RecommendationsAbout(report, 2) = 0

\* a CPU between the two levels next to a memory below its minimum
CpuAdvisedMemoryWarned ==
    /\ Returned
    /\ report.cpu.meets_minimum /\ ~report.cpu.meets_recommended
    /\ ~report.memory.meets_minimum
    /\ RecommendationsAbout(report, 1) = 1
    /\ WarningsAbout(report, 1) = 0
    /\ WarningsAbout(report, 2) = 1

\* C14: the GPU block of validate emits a warning and the add-a-GPU
\* recommendation for an absent GPU, a warning and the hybrid-inference
\* recommendation for vram_gb < 16, the positive recommendation alone for
\* vram_gb >= 32 and nothing for 16 <= vram_gb < 32; a present GPU is warned
\* about exactly when its recommended quantization is the CPU-heavy fallback.
GpuMessages ==
    Returned =>
        LET g == report.gpu
            w == WarningsAbout(report, 3)
            r == RecommendationsAbout(report, 3)
        IN  IF g = None
            THEN /\ w = 1 /\ r = 1
                 /\ Contains(report.warnings,
                        Str("No NVIDIA GPU detected - will use CPU-only inference (very slow)"))
                 /\ Contains(report.recommendations,
                        Str("Add NVIDIA GPU with 24GB+ VRAM for 10-20x speedup"))
            ELSE /\ g.vram_gb.h < MIN_VRAM_GB * 100 =>
                        /\ w = 1 /\ r = 1
                        /\ Contains(report.warnings,
                               FStr("GPU VRAM is {}GB (recommended: {}GB+)",
                                    <<g.vram_gb, PyInt(RECOMMENDED_VRAM_GB)>>))
                        /\ Contains(report.recommendations,
                               Str("GPU will be underutilized. Consider hybrid CPU/GPU inference"))
                 /\ g.vram_gb.h >= OPTIMAL_VRAM_GB * 100 =>
                        /\ w = 0 /\ r = 1
                        /\ Contains(report.recommendations,
                               FStr("Excellent! {}GB VRAM enables Q6_K or Q8_0 quantization",
                                    <<g.vram_gb>>))
                 /\ (g.vram_gb.h >= MIN_VRAM_GB * 100
                     /\ g.vram_gb.h < OPTIMAL_VRAM_GB * 100) => (w = 0 /\ r = 0)
                 /\ w = 1 <=> g.recommended_quantization
                                  = Str("Q4_K_M (CPU-heavy, limited GPU)")

\* a GPU whose stored VRAM is one hundredth below the minimum, warned about
GpuJustBelowMinimum ==
    /\ Returned
    /\ report.gpu # None
    /\ report.gpu.vram_gb.h = MIN_VRAM_GB * 100 - 1
    /\ WarningsAbout(report, 3) = 1
    /\ RecommendationsAbout(report, 3) = 1

\* C15: every storage fact get_storage_info returns has meets_minimum =
\* (available_gb >= 50) for the two-decimal available_gb it stores, so that
\* the storage warning goes with a reported value below 50.  (Fails: the
\* flag is decided on the unrounded quotient.)
StorageFlagMatchesReportedAvailable ==
    (ret.fn = "get_storage_info") =>
        /\ ret.value.meets_minimum <=> (ret.value.available_gb.h >= MIN_STORAGE_GB * 100)
        /\ EvaluateStorage(ret.value).warnings # <<>>
               <=> (ret.value.available_gb.h < MIN_STORAGE_GB * 100)

\* C16: on every platform the cores field of the CPU fact is the physical
\* core count, the threads field the logical CPU count, and the flags are
\* decided on the physical count: 4 physical cores with 8 logical CPUs do
\* not meet the minimum.  (Fails on Linux: cores is the count of nproc --all,
\* the logical CPUs.)
CoresArePhysical ==
    (ret.fn = "get_cpu_info" /\ ret.hw.ok) =>
        /\ ret.value.cores = ret.hw.physical
        /\ ret.value.threads = ret.hw.logical
        /\ ret.value.meets_minimum <=> (ret.hw.physical >= MIN_CPU_CORES)
        /\ ret.value.meets_recommended <=> (ret.hw.physical >= RECOMMENDED_CPU_CORES)

\* C17: main opens the output file only after validate has returned the
\* complete report (the four probes were asked, the aggregation is done and,
\* unless quiet, the text report is printed), and an opened file is closed
\* on every path out of save_report, also when the conversion or a write
\* raises.
OpenedAfterValidateAndClosed ==
    /\ handle # "none" =>
           /\ Returned
           /\ \A probe \in {"cpu", "memory", "gpu", "storage"} : Asked(probe)
           /\ ~InValidate /\ pc # "print_report"
           /\ ~quiet => Contains(stdout, "SYSTEM VALIDATION REPORT")
    /\ file \notin {NoFile, PreviousFile} => handle # "none"
    /\ handle = "open" => pc \in {"json_dump", "with_exit"}
    /\ pc \in {"saved", "exit", "uncaught", "done"} =>
           \/ handle = "closed"
           \/ handle = "none" /\ exc = "OSError" /\ file \in {NoFile, PreviousFile}

\* the conversion raised inside the with statement and the run has ended
ClosedAfterConversionRaised ==
    /\ Exited
    /\ exc = "TypeError"
    /\ handle = "closed"
    /\ ~quiet

(***************************************************************************)
(* One validator whose validate method is called again and again, as the   *)
(* tests do on the validator of setUp.  The machine may answer differently *)
(* at every call.  A failing storage probe prints its diagnostic to        *)
(* sys.stderr, which keeps what the earlier calls printed.                 *)
(***************************************************************************)
MaxDiagnostics == 2

RepeatedCpuAnswers == {hw \in CpuAnswers : hw.ok}

RepeatedMemAnswers == {hw \in MemAnswers : hw.ok}

RepeatedGpuAnswers ==
    {hw \in GpuAnswers :
        \/ hw.smi = "CalledProcessError"
        \/ hw.smi = "ok" /\ hw.cap_ok /\ hw.vram_mb % MB_PER_GB = 0}

RepeatedStorageAnswers == {hw \in StorageAnswers : hw.df_ok}

\* validator = SystemValidator(): no call made yet
ValidatorInit ==
    /\ platform \in Platforms
    /\ quiet = FALSE
    /\ file = NoFile
    /\ pc = "validate"
    /\ cpu = None /\ memory = None /\ gpu = None /\ storage = None
    /\ report = None
    /\ stdout = <<>> /\ stderr = <<>>
    /\ handle = "none"
    /\ exc = "none"
    /\ exit_status = -1
    /\ ret = NoCall
    /\ machine = NoAnswers

\* report = validator.validate(): the four probes, the evaluation, the return
CallValidate ==
    /\ pc = "validate"
    /\ \E c \in RepeatedCpuAnswers, m \in RepeatedMemAnswers,
          g \in RepeatedGpuAnswers, s \in RepeatedStorageAnswers,
          now \in Timestamps :
          LET diagnostics == CpuDiagnostic(c) \o MemDiagnostic(m)
                             \o GpuDiagnostic(g) \o StorageDiagnostic(s)
          IN  /\ Len(stderr) + Len(diagnostics) <= MaxDiagnostics
              /\ cpu' = get_cpu_info(platform, c)
              /\ memory' = get_memory_info(platform, m)
              /\ gpu' = get_gpu_info(g)
              /\ storage' = get_storage_info(platform, s)
              /\ stderr' = stderr \o diagnostics
              /\ machine' = [cpu |-> c, memory |-> m, gpu |-> g, storage |-> s]
              /\ report' = Evaluate(get_cpu_info(platform, c),
                                    get_memory_info(platform, m),
                                    get_gpu_info(g),
                                    get_storage_info(platform, s), now)
    /\ UNCHANGED <<platform, quiet, pc, stdout, file, handle, exc, exit_status,
                   ret>>

ValidateNext == CallValidate

SpecValidate == ValidatorInit /\ [][ValidateNext]_vars

\* does the fact about resource k, as validate reads it, call for a warning
Warranted(r, k) ==
    CASE k = 1 -> ~r.cpu.meets_minimum
      [] k = 2 -> ~r.memory.meets_minimum
      [] k = 3 -> IF r.gpu = None THEN TRUE
                  ELSE r.gpu.vram_gb.h < MIN_VRAM_GB * 100
      [] k = 4 -> ~r.storage.meets_minimum

\* C18: over any sequence of validate calls on one validator, every report
\* is PASSED if and only if it has no warning, a FAILED report has at least
\* one warning, there are at least as many recommendations as warnings, and
\* the report holds only the messages its own facts call for: one warning
\* for each resource that warrants one and none besides, so nothing of an
\* earlier call is carried over.
ReportsAreSelfContained ==
    Returned =>
        /\ report.cpu = cpu /\ report.memory = memory
        /\ report.gpu = gpu /\ report.storage = storage
        /\ report.overall_status = Str("PASSED") <=> report.warnings = <<>>
        /\ report.overall_status = Str("FAILED") => Len(report.warnings) >= 1
        /\ Len(report.recommendations) >= Len(report.warnings)
        /\ \A i \in 1..Len(report.warnings) :
               WarningAbout(report.warnings[i]) \in 1..4
        /\ \A i \in 1..Len(report.recommendations) :
               RecommendationAbout(report.recommendations[i]) \in 1..4
        /\ \A k \in 1..4 :
               /\ WarningsAbout(report, k) = IF Warranted(report, k) THEN 1 ELSE 0
               /\ RecommendationsAbout(report, k) <= 1
               /\ Warranted(report, k) => RecommendationsAbout(report, k) = 1

\* a report without any warning from a validator whose earlier call had a
\* failing storage probe, and so a report with a warning
CleanReportAfterWarnings ==
    /\ Returned
    /\ stderr # <<>>
    /\ machine.storage.ok
    /\ report.overall_status = Str("PASSED")
    /\ report.warnings = <<>>

====
